---- MODULE Spec2Model ----
(***************************************************************************)
(* Streaming-response decoder of ghmer/aicompanion.                        *)
(*                                                                         *)
(* The repository holds several generations of HandleStreamResponse:       *)
(*   openaiScanner  unnamed/part_007 (and part_012): bufio.Scanner loop,   *)
(*                  event-stream dialect                                   *)
(*   ollamaScanner  impl/sidekick/sidekick_test.go (package ollama):       *)
(*                  bufio.Scanner loop, newline-delimited dialect          *)
(*   openaiFixed    openai/companion.go: fixed-size buffer read loop,      *)
(*                  event-stream dialect                                   *)
(*   ollamaFixed    unnamed/part_014: fixed-size buffer read loop,         *)
(*                  newline-delimited dialect                              *)
(*                                                                         *)
(* The response body is a sequence of byte groups (symbols):               *)
(*   "NL" line feed, "SP" blank, "data:" the event-stream prefix,          *)
(*   "[DONE]" the sentinel text, "{" "}" the braces of a JSON object,      *)
(*   "c" opens a choices entry (delta.content follows), "S" is             *)
(*   finish_reason "stop" of that entry, "m" opens a message of role       *)
(*   assistant, "u" a message of role user (the content follows), "r"      *)
(*   opens response, "F" is done:true, "a" "b" are content text, "x" is    *)
(*   text that is no JSON.                                                 *)
(***************************************************************************)
EXTENDS Integers, Sequences, FiniteSets, TLC

\* Bounds of the model.
MaxFrames == 3
MaxChunkFrames == 2
MaxSendFrames == 1

VARIABLES
    variant,      \* which HandleStreamResponse is running
    streamType,   \* parameter streamType: "Chat" or "Generate"
    callback,     \* parameter callback: -1 nil, 0 never fails, n > 0 fails on its n-th call
    wire,         \* the lines the backend sends in this response (each followed by NL)
    unread,       \* resp.Body: the chunks successive Read calls will return
    status,       \* resp.StatusCode as seen by the handler (0: not looked at yet)
    pc,           \* "start", "read" (top of the read loop), "line" (a line in hand), "done", "panic"
    buf,          \* bufio.Scanner's buffer: bytes read and not yet returned as a token
    lines,        \* lines split from the last read and not yet processed
    rerr,         \* error of the last Read: "nil", "EOF" or "ERR"
    message,      \* strings.Builder message
    result,       \* var result models.Message
    finalErr,     \* the error returned ("nil" while none)
    delivered,    \* the messages passed to callback, in order
    nreads,       \* number of Read calls on resp.Body that returned
    unmarshals,   \* number of json.Unmarshal calls made
    failedAt,     \* value of unmarshals when the first json.Unmarshal failed (0: none failed)
    phase,        \* 1: first delivery of the body, 2: the same bytes delivered again
                  \* (two calls: 1 and 2 each call on its own, 3 both at the same time)
    first,        \* outcome of the first delivery (set when the second starts)
                  \* (two calls: what the running call returned on its own)
    closed,       \* resp.Body.Close() has been called
    send,         \* the send operation that issued the request (pc "none": the handler runs alone)
    spinner,      \* the goroutine of StartSpinning: "none", "check", "print" or "exited"
    companion,    \* the Companion: SystemRole, Conversation and Config (kind "none": not used)
    ret,          \* the last call made on the companion or the sidekick, with what it returned
    lastSet,      \* the prompt of the most recent SetSystemRole
    other         \* the locals of the HandleStreamResponse call that is not running right now

vars == <<variant, streamType, callback, wire, unread, status, pc, buf, lines, rerr,
          message, result, finalErr, delivered, nreads, unmarshals, failedAt,
          phase, first, closed, send, spinner, companion, ret, lastSet, other>>

----------------------------------------------------------------------------
\* strings

\* strings.Index(s, "\n"): position of the first NL, 0 when there is none
RECURSIVE IndexNL(_, _)
IndexNL(s, i) ==
    IF i > Len(s) THEN 0
    ELSE IF s[i] = "NL" THEN i
    ELSE IndexNL(s, i + 1)

\* strings.Split(s, "\n")
RECURSIVE Split(_)
Split(s) ==
    LET i == IndexNL(s, 1)
    IN  IF i = 0 THEN <<s>>
        ELSE <<SubSeq(s, 1, i - 1)>> \o Split(SubSeq(s, i + 1, Len(s)))

\* strings.TrimSpace
RECURSIVE TrimSpace(_)
TrimSpace(s) ==
    IF s = <<>> THEN s
    ELSE IF Head(s) \in {"SP", "NL"} THEN TrimSpace(Tail(s))
    ELSE IF s[Len(s)] \in {"SP", "NL"} THEN TrimSpace(SubSeq(s, 1, Len(s) - 1))
    ELSE s

\* strings.TrimPrefix(line, "data:")
TrimPrefix(s) ==
    IF s # <<>> /\ Head(s) = "data:" THEN Tail(s) ELSE s

RECURSIVE Flatten(_)
Flatten(ss) ==
    IF ss = <<>> THEN <<>> ELSE Head(ss) \o Flatten(Tail(ss))

----------------------------------------------------------------------------
\* messages

Text == {"a", "b"}

ZeroMessage == [role |-> "", content |-> <<>>]

CreateMessage(role, input) == [role |-> role, content |-> input]

CreateAssistantMessage(input) == CreateMessage("assistant", input)

----------------------------------------------------------------------------
\* encoding/json

\* blanks between JSON tokens do not count
Tokens(s) == SelectSeq(s, LAMBDA t : t # "SP")

\* the members of a JSON object: cur is the member being read
RECURSIVE Members(_, _, _)
Members(t, i, cur) ==
    IF i > Len(t) THEN TRUE
    ELSE IF t[i] \in {"c", "m", "u", "r"} THEN Members(t, i + 1, t[i])
    ELSE IF t[i] = "F" THEN Members(t, i + 1, "none")
    ELSE IF t[i] = "S" THEN cur = "c" /\ Members(t, i + 1, "none")
    ELSE IF t[i] \in Text THEN cur \in {"c", "m", "u", "r"} /\ Members(t, i + 1, cur)
    ELSE FALSE

\* is the text a JSON object (json.Unmarshal into a struct returns nil)
ValidJSON(s) ==
    LET t == Tokens(s)
    IN  /\ Len(t) >= 2
        /\ t[1] = "{"
        /\ t[Len(t)] = "}"
        /\ Members(SubSeq(t, 2, Len(t) - 1), 1, "none")

\* the content text that follows position i
RECURSIVE Run(_, _)
Run(t, i) ==
    IF i > Len(t) \/ t[i] \notin Text THEN <<>>
    ELSE <<t[i]>> \o Run(t, i + 1)

\* []Choice of a ChatResponse
RECURSIVE ChoicesFrom(_, _)
ChoicesFrom(t, i) ==
    IF i > Len(t) THEN <<>>
    ELSE IF t[i] = "c"
         THEN LET content == Run(t, i + 1)
                  j == i + 1 + Len(content)
              IN  <<[Delta |-> content,
                     FinishReason |-> IF j <= Len(t) /\ t[j] = "S" THEN "stop" ELSE ""]>>
                  \o ChoicesFrom(t, j)
         ELSE ChoicesFrom(t, i + 1)

\* the value of the last member opened by key (a later member overwrites an earlier one)
RECURSIVE Member(_, _, _)
Member(t, key, i) ==
    IF i < 1 THEN <<>>
    ELSE IF t[i] = key THEN Run(t, i + 1)
    ELSE Member(t, key, i - 1)

HasKey(t, key) == \E i \in 1..Len(t) : t[i] = key

\* the message member of a CompletionResponse: role and content as the wire has them
RECURSIVE MessageFrom(_, _)
MessageFrom(t, i) ==
    IF i < 1 THEN ZeroMessage
    ELSE IF t[i] = "m" THEN CreateMessage("assistant", Run(t, i + 1))
    ELSE IF t[i] = "u" THEN CreateMessage("user", Run(t, i + 1))
    ELSE MessageFrom(t, i - 1)

\* json.Unmarshal([]byte(line), &responseObject) with responseObject a ChatResponse
UnmarshalChat(s) ==
    LET t == Tokens(s)
    IN  [ok |-> ValidJSON(s),
         Choices |-> IF ValidJSON(s) THEN ChoicesFrom(t, 1) ELSE <<>>]

\* json.Unmarshal([]byte(line), &responseObject) with responseObject a CompletionResponse
UnmarshalCompletion(s) ==
    LET t == Tokens(s)
        ok == ValidJSON(s)
    IN  [ok |-> ok,
         Message |-> IF ok THEN MessageFrom(t, Len(t)) ELSE ZeroMessage,
         Response |-> IF ok THEN Member(t, "r", Len(t)) ELSE <<>>,
         Done |-> ok /\ HasKey(t, "F")]

----------------------------------------------------------------------------
\* the inputs

Variants == {"openaiScanner", "ollamaScanner", "openaiFixed", "ollamaFixed"}

Scanners == {"openaiScanner", "ollamaScanner"}

StreamTypes == {"Chat", "Generate"}

StatusOK == 200

StatusCodes == {200, 204, 500}

\* lines an event-stream backend sends
EventStreamLines ==
    { <<"data:", "SP", "{", "c", "a", "}">>,
      <<"data:", "SP", "{", "c", "b", "S", "}">>,
      <<"data:", "SP", "{", "c", "a", "c", "b", "F", "}">>,
      <<"data:", "SP", "[DONE]">>,
      <<"[DONE]">>,
      <<"data:", "SP", "{", "}">>,
      <<"x">>,
      <<>> }

\* lines a newline-delimited backend sends: /api/chat frames carry message,
\* /api/generate frames carry response
NewlineDelimitedLines(st) ==
    { <<"{", IF st = "Chat" THEN "m" ELSE "r", "a", "}">>,
      <<"{", IF st = "Chat" THEN "m" ELSE "r", "b", "F", "}">>,
      <<"{", "u", "a", "}">>,
      <<"data:", "SP", "[DONE]">>,
      <<"[DONE]">>,
      <<"x">>,
      <<>> }

EventStream(v) == v \in {"openaiScanner", "openaiFixed"}

LinesOf(v, st) == IF EventStream(v) THEN EventStreamLines ELSE NewlineDelimitedLines(st)

Wires(v, st, n) == UNION { [1..k -> LinesOf(v, st)] : k \in 0..n }

\* the bytes of the body: every line is followed by a line feed
Bytes(w) == Flatten([i \in 1..Len(w) |-> w[i] \o <<"NL">>])

\* the message of the request
UserMessage == CreateMessage("user", <<"a">>)

\* no call has been made on a companion, and no second handler exists
NoApi ==
    /\ companion = [kind |-> "none"]
    /\ ret = [op |-> "none"]
    /\ lastSet = <<>>
    /\ other = [pc |-> "none"]

\* what the handler and the send operation never touch
ApiVars == <<companion, ret, lastSet, other>>

\* no send operation around the handler
NoSend ==
    [pc |-> "none", op |-> "none", output |-> FALSE, requested |-> FALSE,
     received |-> FALSE, cancelled |-> FALSE, result |-> ZeroMessage, err |-> "nil",
     conversation |-> <<>>]

\* the locals of a call of the handler that has not started
Fresh ==
    /\ closed = FALSE
    /\ send = NoSend
    /\ spinner = "none"
    /\ status = 0
    /\ pc = "start"
    /\ buf = <<>>
    /\ lines = <<>>
    /\ rerr = "nil"
    /\ message = <<>>
    /\ result = ZeroMessage
    /\ finalErr = "nil"
    /\ delivered = <<>>
    /\ nreads = 0
    /\ unmarshals = 0
    /\ failedAt = 0

InitHandler == NoApi /\ Fresh

\* every line arrives in a read of its own
Init ==
    /\ variant \in Variants
    /\ streamType \in StreamTypes
    /\ callback \in -1..MaxFrames
    /\ wire \in Wires(variant, streamType, MaxFrames)
    /\ unread = [i \in 1..Len(wire) |-> wire[i] \o <<"NL">>]
    /\ phase = 1
    /\ first = [set |-> FALSE]
    /\ InitHandler

\* the whole body arrives in one read
InitChunk ==
    /\ variant \in Variants
    /\ streamType \in StreamTypes
    /\ callback \in -1..MaxChunkFrames
    /\ wire \in Wires(variant, streamType, MaxChunkFrames)
    /\ unread = IF wire = <<>> THEN <<>> ELSE <<Bytes(wire)>>
    /\ phase = 1
    /\ first = [set |-> FALSE]
    /\ InitHandler

----------------------------------------------------------------------------
\* the handler

\* resp.Body.Close() in the handler itself, directly or deferred
ClosesBody == variant = "ollamaScanner"

\* the assignments of one step to the locals of the handler: the fields of u are
\* assigned, the rest is left alone
Assign(u) ==
    /\ pc' = IF "pc" \in DOMAIN u THEN u.pc ELSE pc
    /\ status' = IF "status" \in DOMAIN u THEN u.status ELSE status
    /\ unread' = IF "unread" \in DOMAIN u THEN u.unread ELSE unread
    /\ buf' = IF "buf" \in DOMAIN u THEN u.buf ELSE buf
    /\ lines' = IF "lines" \in DOMAIN u THEN u.lines ELSE lines
    /\ rerr' = IF "rerr" \in DOMAIN u THEN u.rerr ELSE rerr
    /\ message' = IF "message" \in DOMAIN u THEN u.message ELSE message
    /\ result' = IF "result" \in DOMAIN u THEN u.result ELSE result
    /\ finalErr' = IF "finalErr" \in DOMAIN u THEN u.finalErr ELSE finalErr
    /\ delivered' = IF "delivered" \in DOMAIN u THEN u.delivered ELSE delivered
    /\ nreads' = IF "nreads" \in DOMAIN u THEN u.nreads ELSE nreads
    /\ unmarshals' = IF "unmarshals" \in DOMAIN u THEN u.unmarshals ELSE unmarshals
    /\ failedAt' = IF "failedAt" \in DOMAIN u THEN u.failedAt ELSE failedAt

\* one step of HandleStreamResponse
Apply(u) ==
    /\ Assign(u)
    /\ closed' = (closed \/ (ClosesBody /\ "pc" \in DOMAIN u /\ u.pc = "done"))
    /\ UNCHANGED <<variant, streamType, callback, wire, phase, first, send, spinner, ApiVars>>

\* does the call of callback that follows n earlier calls return an error
CallbackFails(n) == callback > 0 /\ n + 1 = callback

\* the status test with a mistake: every 2xx status passes
StatusRejectedOutside2xx(code) == code \notin 200..299

\* resp.StatusCode != http.StatusOK
StatusRejected(code) == code # StatusOK

\* if resp.StatusCode != http.StatusOK { ... return models.Message{}, err }
CheckStatus ==
    /\ pc = "start"
    /\ \E code \in StatusCodes :
        IF StatusRejected(code)
        THEN IF variant \in Scanners
             THEN \* io.ReadAll(resp.Body) drains the body
                  Apply([status |-> code, pc |-> "done", result |-> ZeroMessage,
                         finalErr |-> "status", unread |-> <<>>,
                         nreads |-> nreads + Len(unread) + 1])
             ELSE Apply([status |-> code, pc |-> "done", result |-> ZeroMessage,
                         finalErr |-> "status"])
        ELSE Apply([status |-> code, pc |-> "read"])

\* message.WriteString(s) with a mistake: the text so far is replaced
WriteStringOverwrites(b, s) == s

\* message.WriteString(s) on the strings.Builder holding b
WriteString(b, s) == b \o s

\* the first failure of json.Unmarshal, counted in calls
NoteFailure(ok) == IF ~ok /\ failedAt = 0 THEN unmarshals + 1 ELSE failedAt

\* what is left of the loop over the lines of this read
Rest == Tail(lines)

\* continue with a mistake: back to the top of the read loop with lines still in hand
ContinueSkipsToRead == "read"

\* continue: on to the next line of this read, or back to the top of the read loop
Continue == IF Rest = <<>> THEN "read" ELSE "line"

----------------------------------------------------------------------------
\* bufio.Scanner over resp.Body

\* Scan reads until its buffer holds a whole line or the body has no more to give
RECURSIVE Fill(_, _, _)
Fill(b, u, n) ==
    IF IndexNL(b, 1) > 0 \/ u = <<>> THEN [buf |-> b, unread |-> u, n |-> n]
    ELSE Fill(b \o Head(u), Tail(u), n + 1)

\* the code after the scanner loop of unnamed/part_007: scanner.Err(), then return
ExitOpenAIScanner(res, err, scanErr) ==
    [pc |-> "done", lines |-> <<>>, result |-> res,
     finalErr |-> IF scanErr = "ERR" THEN "read" ELSE err]

\* the code after the scanner loop of impl/sidekick/sidekick_test.go
ExitOllamaScanner(res, scanErr) ==
    [pc |-> "done", lines |-> <<>>,
     result |-> IF scanErr = "ERR" THEN ZeroMessage ELSE res,
     finalErr |-> IF scanErr = "ERR" THEN "read" ELSE "nil"]

ExitScanner(scanErr) ==
    IF variant = "openaiScanner"
    THEN ExitOpenAIScanner(result, finalErr, scanErr)
    ELSE ExitOllamaScanner(result, scanErr)

\* for scanner.Scan() { ... }: the next token, or the end of the loop
Scan ==
    /\ pc = "read"
    /\ variant \in Scanners
    /\ LET f == Fill(buf, unread, 0)
           i == IndexNL(f.buf, 1)
       IN  IF i > 0
           THEN Apply([pc |-> "line", lines |-> <<SubSeq(f.buf, 1, i - 1)>>,
                       buf |-> SubSeq(f.buf, i + 1, Len(f.buf)),
                       unread |-> f.unread, nreads |-> nreads + f.n])
           ELSE IF rerr # "nil"
           THEN \* the end was seen by an earlier Scan
                Apply(ExitScanner(rerr))
           ELSE \E e \in {"EOF", "ERR"} :
                IF f.buf # <<>>
                THEN \* a last line without line feed is a token too
                     Apply([pc |-> "line", lines |-> <<f.buf>>, buf |-> <<>>,
                            unread |-> f.unread, nreads |-> nreads + f.n + 1,
                            rerr |-> e])
                ELSE Apply(ExitScanner(e) @@
                           [unread |-> f.unread, nreads |-> nreads + f.n + 1,
                            rerr |-> e])

\* the body of the scanner loop of unnamed/part_007 (and part_012)
OpenAIScannerLine ==
    /\ pc = "line"
    /\ variant = "openaiScanner"
    /\ LET line == TrimSpace(Head(lines))
           responseObject == UnmarshalChat(TrimPrefix(line))
           choice == responseObject.Choices[1]
           msg == CreateAssistantMessage(choice.Delta)
           called == IF callback # -1 THEN Append(delivered, msg) ELSE delivered
           text == WriteString(message, choice.Delta)
           decoded == [unmarshals |-> unmarshals + 1,
                       failedAt |-> NoteFailure(responseObject.ok)]
       IN  IF Len(line) = 0
           THEN Apply([pc |-> Continue, lines |-> Rest])
           ELSE IF line = <<"[DONE]">>
           THEN Apply(ExitOpenAIScanner(result, finalErr, rerr))
           ELSE IF ~responseObject.ok
           THEN Apply(ExitOpenAIScanner(result, "decode", rerr) @@ decoded)
           ELSE IF Len(responseObject.Choices) = 0
           THEN Apply(ExitOpenAIScanner(result, "nochoices", rerr) @@ decoded)
           ELSE IF streamType # "Chat"
           THEN Apply([pc |-> "done", lines |-> <<>>, result |-> ZeroMessage,
                       finalErr |-> "unsupported"] @@ decoded)
           ELSE IF callback # -1 /\ CallbackFails(Len(delivered))
           THEN Apply([pc |-> "done", lines |-> <<>>, result |-> ZeroMessage,
                       finalErr |-> "callback", delivered |-> called] @@ decoded)
           ELSE IF choice.FinishReason = "stop"
           THEN Apply(ExitOpenAIScanner(CreateAssistantMessage(text), finalErr, rerr)
                      @@ [message |-> text, delivered |-> called] @@ decoded)
           ELSE Apply([pc |-> Continue, lines |-> Rest, message |-> text,
                       delivered |-> called] @@ decoded)

\* the fragment with a mistake: the response field is read whatever the stream type
FragmentOfResponse(responseObject) == responseObject.Response

\* the fragment of a CompletionResponse: message.content of a chat stream, response
\* of a generate stream
Fragment(responseObject) ==
    IF streamType = "Chat" THEN responseObject.Message.content
    ELSE responseObject.Response

\* the completion rule with a mistake: any decoded frame ends the turn
IsFinalOnAnyFrame(responseObject) == TRUE

\* if responseObject.Done
IsFinal(responseObject) == responseObject.Done

\* the message handed to callback
CallbackArg(responseObject) ==
    IF streamType = "Chat" THEN responseObject.Message
    ELSE CreateAssistantMessage(responseObject.Response)

\* the body of the scanner loop of impl/sidekick/sidekick_test.go (package ollama)
OllamaScannerLine ==
    /\ pc = "line"
    /\ variant = "ollamaScanner"
    /\ LET line == TrimSpace(Head(lines))
           responseObject == UnmarshalCompletion(line)
           text == WriteString(message, Fragment(responseObject))
           called == IF callback # -1
                     THEN Append(delivered, CallbackArg(responseObject))
                     ELSE delivered
           decoded == [unmarshals |-> unmarshals + 1,
                       failedAt |-> NoteFailure(responseObject.ok)]
       IN  IF Len(line) = 0
           THEN Apply([pc |-> Continue, lines |-> Rest])
           ELSE IF ~responseObject.ok
           THEN Apply([pc |-> "done", lines |-> <<>>, result |-> ZeroMessage,
                       finalErr |-> "decode"] @@ decoded)
           ELSE IF callback # -1 /\ CallbackFails(Len(delivered))
           THEN Apply([pc |-> "done", lines |-> <<>>, result |-> ZeroMessage,
                       finalErr |-> "callback", message |-> text,
                       delivered |-> called] @@ decoded)
           ELSE IF IsFinal(responseObject)
           THEN Apply(ExitOllamaScanner(CreateAssistantMessage(text), rerr)
                      @@ [message |-> text, delivered |-> called] @@ decoded)
           ELSE Apply([pc |-> Continue, lines |-> Rest, message |-> text,
                       delivered |-> called] @@ decoded)

----------------------------------------------------------------------------
\* the fixed-size buffer read loops

\* n, err := resp.Body.Read(buffer), and with n = 0 the error handling below the loop
\* over the lines
ReadBody ==
    /\ pc = "read"
    /\ variant \notin Scanners
    /\ IF unread # <<>>
       THEN Apply([pc |-> "line", lines |-> Split(Head(unread)), unread |-> Tail(unread),
                   nreads |-> nreads + 1, rerr |-> "nil"])
       ELSE \E e \in {"EOF", "ERR"} :
            Apply([pc |-> "done", nreads |-> nreads + 1, rerr |-> e,
                   finalErr |-> IF e = "ERR" /\ variant = "openaiFixed"
                                THEN "read" ELSE finalErr])

\* the body of the loop over lines of openai/companion.go
OpenAIFixedLine ==
    /\ pc = "line"
    /\ variant = "openaiFixed"
    /\ LET line == TrimSpace(Head(lines))
           responseObject == UnmarshalChat(TrimPrefix(line))
           content == responseObject.Choices[1].Delta
           msg == CreateAssistantMessage(content)
           calls == streamType = "Chat" /\ callback # -1
           called == IF calls THEN Append(delivered, msg) ELSE delivered
           text == IF streamType = "Chat" THEN WriteString(message, content) ELSE message
           err == IF calls /\ CallbackFails(Len(delivered)) THEN "callback" ELSE finalErr
           decoded == [unmarshals |-> unmarshals + 1,
                       failedAt |-> NoteFailure(responseObject.ok)]
       IN  IF Len(line) = 0
           THEN Apply([pc |-> Continue, lines |-> Rest])
           ELSE IF line = <<"[DONE]">>
           THEN \* break Outerloop
                Apply([pc |-> "done", lines |-> <<>>])
           ELSE IF ~responseObject.ok
           THEN \* break: the rest of this read is dropped, the read loop goes on
                Apply([pc |-> "read", lines |-> <<>>, finalErr |-> "decode"] @@ decoded)
           ELSE IF Len(responseObject.Choices) = 0
           THEN \* responseObject.Choices[0]: index out of range
                Apply([pc |-> "panic", lines |-> <<>>] @@ decoded)
           ELSE IF responseObject.Choices[1].FinishReason = "stop"
           THEN \* break Outerloop
                Apply([pc |-> "done", lines |-> <<>>, message |-> text,
                       result |-> CreateAssistantMessage(text), finalErr |-> err,
                       delivered |-> called] @@ decoded)
           ELSE Apply([pc |-> Continue, lines |-> Rest, message |-> text,
                       finalErr |-> err, delivered |-> called] @@ decoded)

\* the body of the loop over lines of unnamed/part_014
OllamaFixedLine ==
    /\ pc = "line"
    /\ variant = "ollamaFixed"
    /\ LET line == TrimSpace(Head(lines))
           responseObject == UnmarshalCompletion(line)
           text == WriteString(message, Fragment(responseObject))
           called == IF callback # -1
                     THEN Append(delivered, CallbackArg(responseObject))
                     ELSE delivered
           decoded == [unmarshals |-> unmarshals + 1,
                       failedAt |-> NoteFailure(responseObject.ok)]
       IN  IF Len(line) = 0
           THEN Apply([pc |-> Continue, lines |-> Rest])
           ELSE IF ~responseObject.ok
           THEN \* break: the rest of this read is dropped, the read loop goes on
                Apply([pc |-> "read", lines |-> <<>>] @@ decoded)
           ELSE IF IsFinal(responseObject)
           THEN \* break leaves the loop over lines only
                Apply([pc |-> "read", lines |-> <<>>, message |-> text,
                       result |-> CreateAssistantMessage(text),
                       delivered |-> called] @@ decoded)
           ELSE Apply([pc |-> Continue, lines |-> Rest, message |-> text,
                       delivered |-> called] @@ decoded)

----------------------------------------------------------------------------
\* the same bytes, delivered again in two reads split at offset k

Outcome ==
    [set |-> TRUE, delivered |-> delivered, result |-> result, finalErr |-> finalErr,
     rerr |-> rerr]

SecondCall ==
    /\ pc = "done"
    /\ phase = 1
    /\ status = StatusOK
    /\ \E k \in 1..(Len(Bytes(wire)) - 1) :
        /\ unread' = <<SubSeq(Bytes(wire), 1, k),
                       SubSeq(Bytes(wire), k + 1, Len(Bytes(wire)))>>
        /\ phase' = 2
        /\ first' = Outcome
        /\ status' = 0
        /\ pc' = "start"
        /\ buf' = <<>>
        /\ lines' = <<>>
        /\ rerr' = "nil"
        /\ message' = <<>>
        /\ result' = ZeroMessage
        /\ finalErr' = "nil"
        /\ delivered' = <<>>
        /\ nreads' = 0
        /\ unmarshals' = 0
        /\ failedAt' = 0
        /\ closed' = FALSE
        /\ UNCHANGED <<variant, streamType, callback, wire, send, spinner, ApiVars>>

Handler ==
    \/ CheckStatus
    \/ Scan
    \/ OpenAIScannerLine
    \/ OllamaScannerLine
    \/ ReadBody
    \/ OpenAIFixedLine
    \/ OllamaFixedLine

----------------------------------------------------------------------------
\* the send operations: SendChatRequest and SendGenerateRequest with streaming = true

\* the streamType the send operation passes to HandleStreamResponse
StreamTypeFor(v, op) == IF v = "ollamaScanner" THEN op ELSE "Chat"

\* if err != nil after HandleStreamResponse logs the error and does not return
SwallowsStreamError(v, op) ==
    v = "ollamaFixed" \/ (v = "ollamaScanner" /\ op = "Chat")

\* companion.AddMessage(message) at the top of the send operation
AddsMessageFirst(v, op) ==
    v = "ollamaFixed" \/ (v = "openaiFixed" /\ op = "Chat")

\* the conversation after the stream was handled
ConversationAfter(v, op, conversation, res) ==
    IF v \in Scanners
    THEN IF op = "Chat" THEN conversation \o <<UserMessage, res>> ELSE conversation
    ELSE Append(conversation, res)

InitSend ==
    /\ variant \in Variants
    /\ callback \in -1..MaxSendFrames
    /\ \E op \in StreamTypes, output \in BOOLEAN :
        /\ send = [NoSend EXCEPT !.pc = "marshal", !.op = op, !.output = output]
        /\ streamType = StreamTypeFor(variant, op)
        /\ wire \in Wires(variant, op, MaxSendFrames)
    /\ unread = [i \in 1..Len(wire) |-> wire[i] \o <<"NL">>]
    /\ phase = 1
    /\ first = [set |-> FALSE]
    /\ NoApi
    /\ closed = FALSE
    /\ spinner = "none"
    /\ status = 0
    /\ pc = "notcalled"
    /\ buf = <<>>
    /\ lines = <<>>
    /\ rerr = "nil"
    /\ message = <<>>
    /\ result = ZeroMessage
    /\ finalErr = "nil"
    /\ delivered = <<>>
    /\ nreads = 0
    /\ unmarshals = 0
    /\ failedAt = 0

\* the parameters and locals of the handler that only the handler changes
StreamVars ==
    <<variant, streamType, callback, wire, unread, status, buf, lines, rerr, message,
      result, finalErr, delivered, nreads, unmarshals, failedAt, phase, first>>

HandlerVars == <<StreamVars, ApiVars>>

\* defer resp.Body.Close() with a mistake: the body is left open
BodyLeftOpen(s) == closed

\* defer resp.Body.Close(), registered once Do has returned a response
DeferredClose(s) == closed \/ s.received

\* defer cancel(), registered when the spinner was started
DeferredCancel(s) == s.cancelled \/ (s.output /\ spinner # "none")

\* return res, err: the deferred calls run
Return(s, res, err) ==
    /\ send' = [s EXCEPT !.pc = "returned", !.result = res, !.err = err,
                         !.cancelled = DeferredCancel(s)]
    /\ closed' = DeferredClose(s)
    /\ UNCHANGED <<HandlerVars, pc, spinner>>

\* AddMessage(message) where the operation does that first, then json.Marshal(payload)
Marshal ==
    /\ send.pc = "marshal"
    /\ LET s == IF AddsMessageFirst(variant, send.op)
                THEN [send EXCEPT !.conversation = Append(@, UserMessage)]
                ELSE send
       IN  \E ok \in BOOLEAN :
            IF ok
            THEN /\ send' = [s EXCEPT !.pc = "spin"]
                 /\ UNCHANGED <<HandlerVars, pc, spinner, closed>>
            ELSE Return(s, ZeroMessage, "marshal")

\* if Config.Terminal.Output { ctx, cancel = ...; cs.StartSpinning(ctx); defer cancel() }
StartSpinning ==
    /\ send.pc = "spin"
    /\ send' = [send EXCEPT !.pc = "request"]
    /\ spinner' = IF send.output THEN "check" ELSE spinner
    /\ UNCHANGED <<HandlerVars, pc, closed>>

\* http.NewRequestWithContext
NewRequest ==
    /\ send.pc = "request"
    /\ \E ok \in BOOLEAN :
        IF ok
        THEN /\ send' = [send EXCEPT !.pc = "do"]
             /\ UNCHANGED <<HandlerVars, pc, spinner, closed>>
        ELSE Return(send, ZeroMessage, "request")

\* resp, err := HttpClient.Do(req): returns when the response headers are in
Do ==
    /\ send.pc = "do"
    /\ \E ok \in BOOLEAN :
        IF ok
        THEN /\ send' = [send EXCEPT !.pc = "cancel", !.requested = TRUE, !.received = TRUE]
             /\ UNCHANGED <<HandlerVars, pc, spinner, closed>>
        ELSE Return([send EXCEPT !.requested = TRUE], ZeroMessage, "transport")

\* cancel() with a mistake: the call is left out
SignalCancelForgotten(s) == s

\* cancel()
SignalCancel(s) == [s EXCEPT !.cancelled = TRUE]

\* if Config.Terminal.Output { cancel(); ClearLine() }, then the call of
\* HandleStreamResponse
Cancel ==
    /\ send.pc = "cancel"
    /\ send' = [(IF send.output THEN SignalCancel(send) ELSE send) EXCEPT !.pc = "stream"]
    /\ pc' = "start"
    /\ UNCHANGED <<HandlerVars, spinner, closed>>

\* the code after HandleStreamResponse has returned (or panicked)
AfterStream ==
    /\ send.pc = "stream"
    /\ pc \in {"done", "panic"}
    /\ IF pc = "panic"
       THEN /\ send' = [send EXCEPT !.pc = "panicked", !.cancelled = DeferredCancel(send)]
            /\ closed' = DeferredClose(send)
            /\ UNCHANGED <<HandlerVars, pc, spinner>>
       ELSE IF finalErr # "nil" /\ ~SwallowsStreamError(variant, send.op)
       THEN Return(send, result, finalErr)
       ELSE Return([send EXCEPT !.conversation =
                        ConversationAfter(variant, send.op, @, result)],
                   result, "nil")

\* the goroutine of StartSpinning: select on ctx.Done()
SpinCheck ==
    /\ spinner = "check"
    /\ spinner' = IF send.cancelled THEN "exited" ELSE "print"
    /\ UNCHANGED <<HandlerVars, pc, closed, send>>

\* the goroutine of StartSpinning: print the character, sleep, next character
SpinPrint ==
    /\ spinner = "print"
    /\ spinner' = "check"
    /\ UNCHANGED <<HandlerVars, pc, closed, send>>

Send ==
    \/ Marshal
    \/ StartSpinning
    \/ NewRequest
    \/ Do
    \/ Cancel
    \/ AfterStream
    \/ SpinCheck
    \/ SpinPrint

NextSend == Handler \/ Send

SpecSend == InitSend /\ [][NextSend]_vars

----------------------------------------------------------------------------
\* the companion's conversation: system role, history, configuration

\* the longest Conversation (AddMessage and the send operation stop there)
MaxHistory == 3

\* the largest Config.MaxMessages
MaxMessagesBound == 3

\* the companions: the four whose handler is a variant, and part_012, whose handler
\* is the one of "openaiScanner"
Kinds == Variants \cup {"openaiPersona"}

HandlerOf(kind) == IF kind = "openaiPersona" THEN "openaiScanner" ELSE kind

\* PrepareConversation() takes no argument
Older == {"ollamaFixed", "openaiFixed"}

Prompts == {<<"a">>, <<"b">>}

\* models.Message{Role: models.System, Content: prompt}
SystemMessage(prompt) == CreateMessage("system", prompt)

\* the fields of models.Configuration the conversation depends on
Configurations == [MaxMessages : 0..MaxMessagesBound, SystemPrompt : Prompts]

\* the messages a conversation is made of: the user's, and two replies
HistoryMessages ==
    {UserMessage, CreateAssistantMessage(<<"a">>), CreateAssistantMessage(<<"b">>)}

\* models.IncludeStrategy: the three constants, and a value that is none of them
IncludeStrategies == {"both", "assistant", "user", "unset"}

\* s[len(s)-n:]
LastOf(s, n) == SubSeq(s, Len(s) - n + 1, Len(s))

\* the truncation with a mistake: it keeps the oldest messages
TruncateKeepsOldest(messages, maxMessages) ==
    IF Len(messages) > maxMessages THEN SubSeq(messages, 1, maxMessages) ELSE messages

\* if len(messages) > maxMessages { messages = messages[len(messages)-maxMessages:] }
Truncate(messages, maxMessages) ==
    IF Len(messages) > maxMessages THEN LastOf(messages, maxMessages) ELSE messages

\* the switch on includeStrategy in the loop of PrepareArray
Included(msg, includeStrategy) ==
    CASE includeStrategy = "assistant" -> msg.role = "assistant"
      [] includeStrategy = "user" -> msg.role = "user"
      [] OTHER -> TRUE

\* the loop of PrepareArray: newarray after the first n messages
RECURSIVE Newarray(_, _, _)
Newarray(messages, includeStrategy, n) ==
    IF n = 0
    THEN <<>>
    ELSE IF Included(messages[n], includeStrategy)
         THEN Append(Newarray(messages, includeStrategy, n - 1), messages[n])
         ELSE Newarray(messages, includeStrategy, n - 1)

PrepareArray(messages, includeStrategy, maxMessages) ==
    Truncate(Newarray(messages, includeStrategy, Len(messages)), maxMessages)

\* PrepareConversation() with a mistake: the history is returned without the
\* system role
OlderWithoutSystemRole(c) == Truncate(c.Conversation, c.Config.MaxMessages)

\* PrepareConversation() of the older companions
PrepareConversationOlder(c) ==
    Truncate(<<c.SystemRole>> \o c.Conversation, c.Config.MaxMessages)

\* PrepareConversation(message, includeStrategy) with a mistake: the system role is
\* left out
NewerWithoutSystemRole(c, msg, includeStrategy) ==
    Append(PrepareArray(c.Conversation, includeStrategy, c.Config.MaxMessages), msg)

\* PrepareConversation(message, includeStrategy) of the newer companions
PrepareConversationNewer(c, msg, includeStrategy) ==
    Append(<<c.SystemRole>>
             \o PrepareArray(c.Conversation, includeStrategy, c.Config.MaxMessages),
           msg)

\* no request is under way and HandleStreamResponse is not called
NoHandler ==
    /\ streamType = "Chat"
    /\ callback = -1
    /\ wire = <<>>
    /\ unread = <<>>
    /\ phase = 1
    /\ first = [set |-> FALSE]
    /\ closed = FALSE
    /\ send = NoSend
    /\ spinner = "none"
    /\ status = 0
    /\ pc = "notcalled"
    /\ buf = <<>>
    /\ lines = <<>>
    /\ rerr = "nil"
    /\ message = <<>>
    /\ result = ZeroMessage
    /\ finalErr = "nil"
    /\ delivered = <<>>
    /\ nreads = 0
    /\ unmarshals = 0
    /\ failedAt = 0

\* NewCompanion(config) followed by SetSystemRole("a"), with an empty history
InitApi ==
    /\ \E kind \in Kinds, config \in Configurations :
        /\ variant = HandlerOf(kind)
        /\ companion = [kind |-> kind, SystemRole |-> SystemMessage(<<"a">>),
                        Conversation |-> <<>>,
                        Config |-> IF kind = "ollamaScanner"
                                   THEN [config EXCEPT !.SystemPrompt = <<"a">>]
                                   ELSE config]
    /\ lastSet = <<"a">>
    /\ ret = [op |-> "none"]
    /\ other = [pc |-> "none"]
    /\ NoHandler

\* what a call on the companion leaves alone
NotCompanion == <<StreamVars, pc, closed, send, spinner, other>>

\* SetSystemRole(prompt)
SetSystemRole ==
    \E prompt \in Prompts :
        /\ companion' = [companion EXCEPT
                            !.SystemRole = SystemMessage(prompt),
                            !.Config.SystemPrompt =
                                IF companion.kind = "ollamaScanner" THEN prompt ELSE @]
        /\ lastSet' = prompt
        /\ ret' = [op |-> "SetSystemRole"]
        /\ UNCHANGED NotCompanion

\* SetConfig(config): every companion but the one of part_014 goes on to call
\* SetSystemRole with the prompt of the new configuration
SetConfig ==
    \E config \in Configurations :
        /\ companion' = [companion EXCEPT
                            !.Config = config,
                            !.SystemRole = IF companion.kind = "ollamaFixed"
                                           THEN @
                                           ELSE SystemMessage(config.SystemPrompt)]
        /\ ret' = [op |-> "SetConfig"]
        /\ UNCHANGED <<lastSet, NotCompanion>>

\* GetSystemRole()
GetSystemRole ==
    /\ ret' = [op |-> "GetSystemRole", value |-> companion.SystemRole]
    /\ UNCHANGED <<companion, lastSet, NotCompanion>>

\* AddMessage(message)
AddMessage ==
    /\ Len(companion.Conversation) < MaxHistory
    /\ \E msg \in HistoryMessages :
        /\ companion' = [companion EXCEPT !.Conversation = Append(@, msg)]
        /\ ret' = [op |-> "AddMessage"]
    /\ UNCHANGED <<lastSet, NotCompanion>>

\* PrepareConversation: part_012 first sets the system role from the configuration
PrepareConversation ==
    IF companion.kind \in Older
    THEN /\ ret' = [op |-> "PrepareConversation",
                    value |-> PrepareConversationOlder(companion)]
         /\ UNCHANGED <<companion, lastSet, NotCompanion>>
    ELSE \E msg \in {UserMessage}, includeStrategy \in IncludeStrategies :
            LET c == IF companion.kind = "openaiPersona"
                     THEN [companion EXCEPT
                             !.SystemRole = SystemMessage(companion.Config.SystemPrompt)]
                     ELSE companion
            IN  /\ companion' = c
                /\ ret' = [op |-> "PrepareConversation", message |-> msg,
                           includeStrategy |-> includeStrategy,
                           value |-> PrepareConversationNewer(c, msg, includeStrategy)]
                /\ UNCHANGED <<lastSet, NotCompanion>>

\* PrepareArray(companion.Conversation, includeStrategy, companion.Config.MaxMessages),
\* the arguments PrepareConversation calls it with
PrepareArrayCall ==
    /\ \E includeStrategy \in IncludeStrategies,
          maxMessages \in {companion.Config.MaxMessages} :
        ret' = [op |-> "PrepareArray", messages |-> companion.Conversation,
                includeStrategy |-> includeStrategy, maxMessages |-> maxMessages,
                value |-> PrepareArray(companion.Conversation, includeStrategy,
                                       maxMessages)]
    /\ UNCHANGED <<companion, lastSet, NotCompanion>>

\* SendChatRequest(UserMessage, streaming, callback) as one step. The exchange
\* either fails before the reply is in hand ("failed"), or the stream fails and the
\* operation carries on ("swallowed"), or the reply arrives ("ok").
SendChatRequest ==
    /\ Len(companion.Conversation) + 2 <= MaxHistory
    /\ \E outcome \in {"failed", "swallowed", "ok"} :
        LET v == HandlerOf(companion.kind)
            added == IF AddsMessageFirst(v, "Chat")
                     THEN Append(companion.Conversation, UserMessage)
                     ELSE companion.Conversation
            reply == IF outcome = "ok" THEN CreateAssistantMessage(<<"b">>)
                     ELSE ZeroMessage
            after == IF outcome = "failed"
                        \/ (outcome = "swallowed" /\ ~SwallowsStreamError(v, "Chat"))
                     THEN added
                     ELSE ConversationAfter(v, "Chat", added, reply)
        IN  /\ companion' = [companion EXCEPT !.Conversation = after]
            /\ ret' = [op |-> "SendChatRequest", ok |-> outcome = "ok",
                       before |-> companion.Conversation, value |-> reply]
    /\ UNCHANGED <<lastSet, NotCompanion>>

Api ==
    \/ SetSystemRole
    \/ SetConfig
    \/ GetSystemRole
    \/ AddMessage
    \/ PrepareConversation
    \/ PrepareArrayCall
    \/ SendChatRequest

NextApi == Api

SpecApi == InitApi /\ [][NextApi]_vars

----------------------------------------------------------------------------
\* the sidekick's image resizing: CalculateNewDimensions

\* the largest width, height and maxSize
MaxPixels == 5

RECURSIVE GCD(_, _)
GCD(a, b) == IF b = 0 THEN a ELSE GCD(b, a % b)

IsPowerOfTwo(n) == \E k \in 0..n : 2 ^ k = n

\* the side the scale is computed from, with a mistake: the shorter one
ShorterSide(width, height) == IF width > height THEN height ELSE width

\* if width > height { scale = maxSize / width } else { scale = maxSize / height }
ScaleSide(width, height) == IF width > height THEN width ELSE height

\* float64(maxSize) / float64(side) is exact when the reduced denominator is a power
\* of two, and rounded to the nearest float64 otherwise
ScaleIsExact(maxSize, side) == IsPowerOfTwo(side \div GCD(maxSize, side))

\* int(float64(length) * scale) for scale = maxSize / side: the product is truncated
\* towards zero. With a rounded scale a product whose exact value is an integer may
\* come out just below it (49 * (1.0 / 49) < 1), and is then truncated to the integer
\* below; a product whose exact value is not an integer is at least 1 / side away
\* from the next integer, which the rounding cannot bridge.
Scaled(length, maxSize, side) ==
    LET exact == (length * maxSize) \div side
    IN  IF (length * maxSize) % side = 0 /\ ~ScaleIsExact(maxSize, side)
        THEN {exact - 1, exact}
        ELSE {exact}

\* the bounds of a decoded image and the maxSize handed to ResizeImage
InitResize ==
    /\ variant = "ollamaScanner"
    /\ companion = [kind |-> "none"]
    /\ lastSet = <<>>
    /\ other = [pc |-> "none"]
    /\ ret \in [op : {"bounds"}, width : 1..MaxPixels, height : 1..MaxPixels,
                maxSize : 1..MaxPixels]
    /\ NoHandler

\* CalculateNewDimensions(bounds, maxSize)
CalculateNewDimensions ==
    /\ ret.op = "bounds"
    /\ LET side == ScaleSide(ret.width, ret.height)
       IN  \E newWidth \in Scaled(ret.width, ret.maxSize, side),
              newHeight \in Scaled(ret.height, ret.maxSize, side) :
            ret' = [op |-> "CalculateNewDimensions", width |-> ret.width,
                    height |-> ret.height, maxSize |-> ret.maxSize,
                    newWidth |-> newWidth, newHeight |-> newHeight]
    /\ UNCHANGED <<companion, lastSet, NotCompanion>>

NextResize == CalculateNewDimensions

SpecResize == InitResize /\ [][NextResize]_vars

----------------------------------------------------------------------------
\* two calls of HandleStreamResponse on two companions, each with a response of its
\* own, in two goroutines. Every variable of the handler is a local of the call or
\* a field of its resp; the package-level sideKick has no field. One call runs, the
\* other is parked in `other`, and a switch of goroutines exchanges them.

\* the most lines in the body of the first call
MaxPairFrames == 1

\* the bodies of the second call: a stream that ends as it should, and one with a
\* line that is not JSON
OtherBodies(v) ==
    IF EventStream(v)
    THEN { << <<"data:", "SP", "{", "c", "a", "}">>, <<"data:", "SP", "[DONE]">> >>,
           << <<"data:", "SP", "{", "c", "a", "}">>, <<"x">> >> }
    ELSE { << <<"{", "m", "a", "}">>, <<"{", "m", "b", "F", "}">> >>,
           << <<"{", "m", "a", "}">>, <<"x">> >> }

\* a call that has not started: its parameters, its resp and its locals
FreshCall(v, st, cb, w) ==
    [variant |-> v, streamType |-> st, callback |-> cb, wire |-> w,
     unread |-> [i \in 1..Len(w) |-> w[i] \o <<"NL">>],
     status |-> 0, pc |-> "start", buf |-> <<>>, lines |-> <<>>, rerr |-> "nil",
     message |-> <<>>, result |-> ZeroMessage, finalErr |-> "nil", delivered |-> <<>>,
     nreads |-> 0, unmarshals |-> 0, failedAt |-> 0, closed |-> FALSE,
     alone |-> [set |-> FALSE]]

\* the running call, as it is parked
Locals ==
    [variant |-> variant, streamType |-> streamType, callback |-> callback,
     wire |-> wire, unread |-> unread, status |-> status, pc |-> pc, buf |-> buf,
     lines |-> lines, rerr |-> rerr, message |-> message, result |-> result,
     finalErr |-> finalErr, delivered |-> delivered, nreads |-> nreads,
     unmarshals |-> unmarshals, failedAt |-> failedAt, closed |-> closed,
     alone |-> first]

\* the parked call r runs again
Resume(r) ==
    /\ variant' = r.variant
    /\ streamType' = r.streamType
    /\ callback' = r.callback
    /\ wire' = r.wire
    /\ unread' = r.unread
    /\ status' = r.status
    /\ pc' = r.pc
    /\ buf' = r.buf
    /\ lines' = r.lines
    /\ rerr' = r.rerr
    /\ message' = r.message
    /\ result' = r.result
    /\ finalErr' = r.finalErr
    /\ delivered' = r.delivered
    /\ nreads' = r.nreads
    /\ unmarshals' = r.unmarshals
    /\ failedAt' = r.failedAt
    /\ closed' = r.closed
    /\ first' = r.alone

\* what the call saw of its response and what it returned and delivered
Seen(r) ==
    [status |-> r.status, rerr |-> r.rerr, delivered |-> r.delivered,
     result |-> r.result, finalErr |-> r.finalErr]

InitPair ==
    /\ variant \in Scanners
    /\ streamType \in StreamTypes
    /\ callback \in -1..MaxPairFrames
    /\ wire \in Wires(variant, streamType, MaxPairFrames)
    /\ unread = [i \in 1..Len(wire) |-> wire[i] \o <<"NL">>]
    /\ phase = 1
    /\ first = [set |-> FALSE]
    /\ other \in { FreshCall(v, "Chat", 0, w) : v \in Scanners, w \in UNION {OtherBodies(u) : u \in Scanners} }
    /\ other.wire \in OtherBodies(other.variant)
    /\ companion = [kind |-> "none"]
    /\ ret = [op |-> "none"]
    /\ lastSet = <<>>
    /\ Fresh

\* the call has returned on its own: what it did is kept, and the next run starts.
\* After the first call the second runs on its own, after the second both start
\* again and run at the same time.
Restart ==
    /\ phase \in {1, 2}
    /\ pc \in {"done", "panic"}
    /\ LET mine == [FreshCall(variant, streamType, callback, wire)
                      EXCEPT !.alone = [set |-> TRUE] @@ Seen(Locals)]
       IN  IF phase = 1
           THEN other' = mine /\ Resume(other)
           ELSE other' = other /\ Resume(mine)
    /\ phase' = phase + 1
    /\ UNCHANGED <<send, spinner, companion, ret, lastSet>>

\* the builder with a mistake: one strings.Builder for all calls, so the call that
\* runs next goes on with the text of the call that ran last
SharedBuilder(call, running) == [call EXCEPT !.message = running.message]

\* var message strings.Builder is a local of the call
OwnBuilder(call, running) == call

\* the scheduler takes the processor from one goroutine and gives it to the other
Switch ==
    /\ phase = 3
    /\ other.pc \notin {"done", "panic"}
    /\ other' = Locals
    /\ Resume(OwnBuilder(other, Locals))
    /\ UNCHANGED <<phase, send, spinner, companion, ret, lastSet>>

\* the response a call gets is an input of the comparison: the second call is
\* answered with 200, and a call that runs with the other gets the status and the end
\* of the body of its run on its own
SameInput ==
    /\ phase = 2 => status' = StatusOK
    /\ phase = 3 => (status' = first.status /\ rerr' \in {"nil", first.rerr})

PairCheckStatus == CheckStatus /\ SameInput

PairScan == Scan /\ SameInput

NextPair ==
    \/ PairCheckStatus
    \/ PairScan
    \/ OpenAIScannerLine
    \/ OllamaScannerLine
    \/ Restart
    \/ Switch

SpecPair == InitPair /\ [][NextPair]_vars

----------------------------------------------------------------------------
\* the first generation (unnamed/part_000, package main): ProcessUserInput with
\* handleOpenAIStreamResponse and handleOllamaStreamResponse; no callback, the
\* spinner is started whatever the configuration

\* Config.SelectedResponseType
LegacyVariants == {"legacyOpenAI", "legacyOllama"}

LegacyLines(v) ==
    IF v = "legacyOpenAI" THEN EventStreamLines ELSE NewlineDelimitedLines("Chat")

InitLegacy ==
    /\ variant \in LegacyVariants
    /\ streamType = "Chat"
    /\ callback = -1
    /\ wire \in UNION { [1..k -> LegacyLines(variant)] : k \in 0..MaxSendFrames }
    /\ unread = [i \in 1..Len(wire) |-> wire[i] \o <<"NL">>]
    /\ send = [NoSend EXCEPT !.pc = "marshal", !.op = "Chat", !.output = TRUE]
    /\ phase = 1
    /\ first = [set |-> FALSE]
    /\ NoApi
    /\ closed = FALSE
    /\ spinner = "none"
    /\ status = 0
    /\ pc = "notcalled"
    /\ buf = <<>>
    /\ lines = <<>>
    /\ rerr = "nil"
    /\ message = <<>>
    /\ result = ZeroMessage
    /\ finalErr = "nil"
    /\ delivered = <<>>
    /\ nreads = 0
    /\ unmarshals = 0
    /\ failedAt = 0

\* cs.StartSpinning() of the first generation: the spinner goroutine is started
LegacySpinnerStarted == "check"

\* cs.StopSpinning() of the first generation: the spinner goroutine is told to stop
LegacySpinnerStopped(s) == [s EXCEPT !.cancelled = TRUE]

\* return from ProcessUserInput: the only deferred call is resp.Body.Close()
LegacyReturn(s, res, err) ==
    /\ send' = [s EXCEPT !.pc = "returned", !.result = res, !.err = err]
    /\ closed' = (closed \/ s.received)
    /\ UNCHANGED <<HandlerVars, pc, spinner>>

\* companion.addMessage(message), then json.Marshal(payload)
LegacyMarshal ==
    /\ variant \in LegacyVariants
    /\ send.pc = "marshal"
    /\ LET s == [send EXCEPT !.conversation = Append(@, UserMessage)]
       IN  \E ok \in BOOLEAN :
            IF ok
            THEN /\ send' = [s EXCEPT !.pc = "spin"]
                 /\ UNCHANGED <<HandlerVars, pc, spinner, closed>>
            ELSE LegacyReturn(s, ZeroMessage, "marshal")

\* cs := NewSpinningCharacter('?'); cs.StartSpinning()
LegacyStartSpinning ==
    /\ variant \in LegacyVariants
    /\ send.pc = "spin"
    /\ send' = [send EXCEPT !.pc = "request"]
    /\ spinner' = LegacySpinnerStarted
    /\ UNCHANGED <<HandlerVars, pc, closed>>

\* http.NewRequest
LegacyNewRequest ==
    /\ variant \in LegacyVariants
    /\ send.pc = "request"
    /\ \E ok \in BOOLEAN :
        IF ok
        THEN /\ send' = [send EXCEPT !.pc = "do"]
             /\ UNCHANGED <<HandlerVars, pc, spinner, closed>>
        ELSE LegacyReturn(send, ZeroMessage, "request")

\* resp, err := client.Do(req)
LegacyDo ==
    /\ variant \in LegacyVariants
    /\ send.pc = "do"
    /\ \E ok \in BOOLEAN :
        IF ok
        THEN /\ send' = [send EXCEPT !.pc = "cancel", !.requested = TRUE, !.received = TRUE]
             /\ UNCHANGED <<HandlerVars, pc, spinner, closed>>
        ELSE LegacyReturn([send EXCEPT !.requested = TRUE], ZeroMessage, "transport")

\* cs.StopSpinning(); fmt.Print(ClearLine), then the call of the handler
LegacyStopSpinning ==
    /\ variant \in LegacyVariants
    /\ send.pc = "cancel"
    /\ send' = [LegacySpinnerStopped(send) EXCEPT !.pc = "stream"]
    /\ pc' = "start"
    /\ UNCHANGED <<HandlerVars, spinner, closed>>

\* one step of a handler of the first generation: conversation is the
\* companion's Conversation after the step
LegacyApply(u, conversation) ==
    /\ Assign(u)
    /\ send' = [send EXCEPT !.conversation = conversation]
    /\ UNCHANGED <<variant, streamType, callback, wire, phase, first, closed, spinner, ApiVars>>

\* if resp.StatusCode != http.StatusOK { return Message{}, errors.New(...) }
LegacyCheckStatus ==
    /\ variant \in LegacyVariants
    /\ pc = "start"
    /\ \E code \in StatusCodes :
        IF StatusRejected(code)
        THEN LegacyApply([status |-> code, pc |-> "done", result |-> ZeroMessage,
                          finalErr |-> "status"], send.conversation)
        ELSE LegacyApply([status |-> code, pc |-> "read"], send.conversation)

\* n, err := resp.Body.Read(buffer), and with n = 0 the error handling below the
\* loop over the lines
LegacyReadBody ==
    /\ variant \in LegacyVariants
    /\ pc = "read"
    /\ IF unread # <<>>
       THEN LegacyApply([pc |-> "line", lines |-> Split(Head(unread)),
                         unread |-> Tail(unread), nreads |-> nreads + 1, rerr |-> "nil"],
                        send.conversation)
       ELSE \E e \in {"EOF", "ERR"} :
            LegacyApply([pc |-> "done", nreads |-> nreads + 1, rerr |-> e],
                        send.conversation)

\* strings.HasPrefix(line, "data: ")
HasDataPrefix(line) == Len(line) >= 2 /\ line[1] = "data:" /\ line[2] = "SP"

\* the body of the loop over lines of handleOpenAIStreamResponse
LegacyOpenAILine ==
    /\ variant = "legacyOpenAI"
    /\ pc = "line"
    /\ LET line == TrimSpace(Head(lines))
           chunk == UnmarshalChat(SubSeq(line, 3, Len(line)))
           text == WriteString(message,
                       Flatten([i \in 1..Len(chunk.Choices) |-> chunk.Choices[i].Delta]))
           res == CreateAssistantMessage(message)
           decoded == [unmarshals |-> unmarshals + 1, failedAt |-> NoteFailure(chunk.ok)]
       IN  IF Len(line) = 0
           THEN LegacyApply([pc |-> Continue, lines |-> Rest], send.conversation)
           ELSE IF line = <<"data:", "SP", "[DONE]">>
           THEN LegacyApply([pc |-> "done", lines |-> <<>>, result |-> res,
                             finalErr |-> IF rerr = "nil" THEN "nil" ELSE "read"],
                            Append(send.conversation, res))
           ELSE IF ~HasDataPrefix(line)
           THEN LegacyApply([pc |-> Continue, lines |-> Rest], send.conversation)
           ELSE IF ~chunk.ok
           THEN LegacyApply([pc |-> Continue, lines |-> Rest] @@ decoded,
                            send.conversation)
           ELSE LegacyApply([pc |-> Continue, lines |-> Rest, message |-> text] @@ decoded,
                            send.conversation)

\* the body of the loop over lines of handleOllamaStreamResponse
LegacyOllamaLine ==
    /\ variant = "legacyOllama"
    /\ pc = "line"
    /\ LET line == TrimSpace(Head(lines))
           responseObject == UnmarshalCompletion(line)
           text == WriteString(message, responseObject.Message.content)
           res == CreateAssistantMessage(text)
           decoded == [unmarshals |-> unmarshals + 1,
                       failedAt |-> NoteFailure(responseObject.ok)]
       IN  IF Len(line) = 0
           THEN LegacyApply([pc |-> Continue, lines |-> Rest], send.conversation)
           ELSE IF ~responseObject.ok
           THEN LegacyApply([pc |-> Continue, lines |-> Rest] @@ decoded,
                            send.conversation)
           ELSE IF responseObject.Done
           THEN LegacyApply([pc |-> "done", lines |-> <<>>, message |-> text,
                             result |-> res,
                             finalErr |-> IF rerr = "nil" THEN "nil" ELSE "read"] @@ decoded,
                            Append(send.conversation, res))
           ELSE LegacyApply([pc |-> Continue, lines |-> Rest, message |-> text] @@ decoded,
                            send.conversation)

\* the switch on SelectedResponseType has returned: return result, nil
LegacyAfterStream ==
    /\ variant \in LegacyVariants
    /\ send.pc = "stream"
    /\ pc = "done"
    /\ LegacyReturn(send, result, "nil")

Legacy ==
    \/ LegacyMarshal
    \/ LegacyStartSpinning
    \/ LegacyNewRequest
    \/ LegacyDo
    \/ LegacyStopSpinning
    \/ LegacyCheckStatus
    \/ LegacyReadBody
    \/ LegacyOpenAILine
    \/ LegacyOllamaLine
    \/ LegacyAfterStream
    \/ SpinCheck
    \/ SpinPrint

NextLegacy == Legacy

SpecLegacy == InitLegacy /\ [][NextLegacy]_vars

Next == Handler

Spec == Init /\ [][Next]_vars

NextChunk == Handler \/ SecondCall

SpecChunk == InitChunk /\ [][NextChunk]_vars

----------------------------------------------------------------------------
\* what the wire says, read off the lines the backend sent

Blank(l) == TrimSpace(l) = <<>>

\* the sentinel, bare or behind the data: prefix
Sentinel(l) ==
    \/ TrimSpace(l) = <<"[DONE]">>
    \/ TrimSpace(TrimPrefix(TrimSpace(l))) = <<"[DONE]">>

EventFrame(l) == UnmarshalChat(TrimPrefix(TrimSpace(l)))

LineFrame(l) == UnmarshalCompletion(TrimSpace(l))

\* a frame of the dialect that decodes and carries a fragment
GoodFrame(v, l) ==
    /\ ~Blank(l)
    /\ IF EventStream(v)
       THEN ~Sentinel(l) /\ EventFrame(l).ok /\ Len(EventFrame(l).Choices) > 0
       ELSE LineFrame(l).ok

\* a line that is no JSON of the dialect
Malformed(v, l) ==
    /\ ~Blank(l)
    /\ IF EventStream(v) THEN ~Sentinel(l) /\ ~EventFrame(l).ok ELSE ~LineFrame(l).ok

StopFrame(v, l) ==
    GoodFrame(v, l) /\ EventStream(v) /\ EventFrame(l).Choices[1].FinishReason = "stop"

DoneFrame(v, l) == GoodFrame(v, l) /\ ~EventStream(v) /\ LineFrame(l).Done

\* a termination signal of the dialect
Terminal(v, l) ==
    IF EventStream(v) THEN Sentinel(l) \/ StopFrame(v, l) ELSE DoneFrame(v, l)

\* the text fragment a frame carries
FragmentOn(v, st, l) ==
    IF ~GoodFrame(v, l) THEN <<>>
    ELSE IF EventStream(v) THEN EventFrame(l).Choices[1].Delta
    ELSE IF st = "Chat" THEN LineFrame(l).Message.content
    ELSE LineFrame(l).Response

\* the fragments of the first n lines, in order
Concat(v, st, w, n) == Flatten([i \in 1..n |-> FragmentOn(v, st, w[i])])

\* the lines before line n are frames that end nothing, or blank
Streaming(v, w, n) ==
    \A i \in 1..(n - 1) : Blank(w[i]) \/ (GoodFrame(v, w[i]) /\ ~Terminal(v, w[i]))

\* the callback has returned an error
CallbackFailed == callback > 0 /\ Len(delivered) >= callback

Returned == pc = "done" /\ status = StatusOK

----------------------------------------------------------------------------
\* the claims

\* C1: a body that reaches end-of-input with no termination signal on the wire (and
\* no decode or callback failure on the way) yields a failure classified as a
\* truncated stream, never a nil error.
C1_TruncatedStream ==
    (/\ Returned
     /\ rerr = "EOF"
     /\ failedAt = 0
     /\ ~CallbackFailed
     /\ \A i \in 1..Len(wire) : ~Terminal(variant, wire[i]))
        => finalErr = "truncated"

\* C2: an event stream of well-formed frames without finish_reason "stop" that ends
\* with the sentinel returns nil error and the fragments before the sentinel,
\* concatenated in order.
C2_SentinelEndsTurn ==
    (/\ Returned
     /\ EventStream(variant)
     /\ streamType = "Chat"
     /\ ~CallbackFailed
     /\ Len(wire) > 0
     /\ Sentinel(wire[Len(wire)])
     /\ Streaming(variant, wire, Len(wire)))
        => /\ finalErr = "nil"
           /\ result = CreateAssistantMessage(Concat(variant, streamType, wire, Len(wire)))

\* C3: in the event-stream dialect a sentinel line, bare or behind the data: prefix,
\* ends the call in the step that handles it: no error, no JSON decoding, no content.
C3_SentinelFinishes ==
    [][(pc = "line" /\ EventStream(variant) /\ Sentinel(Head(lines)))
        => /\ pc' = "done"
           /\ unmarshals' = unmarshals
           /\ finalErr' = finalErr
           /\ message' = message
           /\ delivered' = delivered]_vars

\* C4: the same bytes delivered in two reads split at any offset give the deltas,
\* the message and the error of the delivery in a single read.
C4_ChunkBoundaryInvariance ==
    (/\ phase = 2
     /\ status = StatusOK
     /\ pc \in {"done", "panic"}
     /\ first.rerr # "ERR"
     /\ rerr # "ERR")
        => /\ pc = "done"
           /\ delivered = first.delivered
           /\ result = first.result
           /\ finalErr = first.finalErr

\* C5: a malformed line that follows only well-formed, non-terminal frames makes the
\* call return a decode error and the zero Message, whatever follows it.
C5_MalformedLineFails ==
    (/\ Returned
     /\ rerr # "ERR"
     /\ ~CallbackFailed
     /\ EventStream(variant) => streamType = "Chat"
     /\ \E i \in 1..Len(wire) :
            Malformed(variant, wire[i]) /\ Streaming(variant, wire, i))
        => /\ finalErr = "decode"
           /\ result = ZeroMessage

\* C6: once a frame has failed JSON decoding, no later frame is decoded, appended
\* to the text or delivered to the callback.
C6_DecodeFailureIsFatal ==
    [][failedAt # 0
        => /\ unmarshals' = unmarshals
           /\ message' = message
           /\ delivered' = delivered]_vars

\* C7: when the callback returns an error on its n-th call it is never called again
\* (n - 1 deltas were delivered before the failing one), and the call returns a
\* callback error and the zero Message.
C7_CallbackErrorStops ==
    CallbackFailed
        => /\ Len(delivered) = callback
           /\ (pc = "done" /\ rerr # "ERR")
                  => (finalErr = "callback" /\ result = ZeroMessage)

\* the position of the first line of w that ends the turn (0: none)
FirstTerminal(v, w) ==
    IF \E i \in 1..Len(w) : Terminal(v, w[i])
    THEN CHOOSE i \in 1..Len(w) : Terminal(v, w[i]) /\ \A j \in 1..(i - 1) : ~Terminal(v, w[j])
    ELSE 0

C10_OneOutcome ==
    pc = "done"
        => \/ finalErr = "nil" /\ result.role = "assistant"
           \/ finalErr # "nil" /\ result = ZeroMessage

\* the call went past the status test into the read loop
EnteredLoop == status # 0 /\ finalErr # "status"

C12_TerminationEndsCall ==
    [][(pc = "line" /\ Terminal(variant, Head(lines)))
        => /\ pc' = "done"
           /\ nreads' = nreads]_vars

\* C16: every callback call gets a freshly built message of role assistant whose
\* content is the fragment of the frame just decoded.
C16_CallbackGetsFreshAssistantMessage ==
    [][delivered' # delivered
        => /\ pc = "line"
           /\ delivered' = Append(delivered, CreateAssistantMessage(
                                FragmentOn(variant, streamType, Head(lines))))]_vars

\* the text of every delta a frame carries, in order
AllDeltas(v, st, l) ==
    IF EventStream(v) /\ GoodFrame(v, l)
    THEN Flatten([i \in 1..Len(EventFrame(l).Choices) |-> EventFrame(l).Choices[i].Delta])
    ELSE FragmentOn(v, st, l)

\* C17: the accumulated text changes only when a frame is decoded, and a frame
\* decoded without an error being reported appends the text of every delta it
\* carries, once and in order (scanner variants).
C17_AggregatorInvariant ==
    [][(variant \in Scanners)
        => /\ (message' # message) => (pc = "line" /\ unmarshals' = unmarshals + 1)
           /\ (pc = "line" /\ GoodFrame(variant, Head(lines)) /\ finalErr' = "nil")
                  => (message' = message \o AllDeltas(variant, streamType, Head(lines)))
      ]_vars

\* C18: frames are handled one at a time and in arrival order. The body is read
\* only when no line is in hand; a step decodes one frame, the one that arrived last,
\* and takes it out of the lines in hand; the callback is called only in such a
\* step, once, with the fragment of that frame.
C18_Lockstep ==
    [][/\ nreads' >= nreads
       /\ (nreads' # nreads) => (pc \in {"start", "read"} /\ lines = <<>>)
       /\ (unmarshals' # unmarshals)
              => /\ pc = "line"
                 /\ Head(lines) = wire[nreads]
                 /\ unmarshals' = unmarshals + 1
                 /\ lines' \in {<<>>, Rest}
       /\ (delivered' # delivered)
              => /\ unmarshals' # unmarshals
                 /\ Len(delivered') = Len(delivered) + 1
                 /\ SubSeq(delivered', 1, Len(delivered)) = delivered
                 /\ delivered'[Len(delivered')].content
                        = FragmentOn(variant, streamType, Head(lines))
      ]_vars

C18_Witness ==
    /\ variant \in Scanners
    /\ streamType = "Chat"
    /\ Len(wire) = 3
    /\ \A i \in 1..2 : GoodFrame(variant, wire[i]) /\ ~Terminal(variant, wire[i])
    /\ pc = "line"
    /\ nreads = 3
    /\ lines = <<wire[3]>>
    /\ Len(delivered) = 2
    /\ unmarshals = 2

\* a step that handles a line and ends the turn: a finished message is built, or
\* the call returns without error
Finishes ==
    /\ pc = "line"
    /\ \/ result' # result /\ result'.role = "assistant"
       \/ pc' = "done" /\ finalErr' = "nil"

\* C19: the completion rules of the dialects are not mixed. A newline-delimited
\* stream is finished only by a frame with done=true, and a [DONE] line, bare or
\* behind data:, fails JSON decoding there; an event stream is finished only by the
\* sentinel or a finish_reason "stop", never by a done flag.
C19_CompletionRulesNotMixed ==
    [][/\ (Finishes /\ ~EventStream(variant)) => DoneFrame(variant, Head(lines))
       /\ (Finishes /\ EventStream(variant))
              => (Sentinel(Head(lines)) \/ StopFrame(variant, Head(lines)))
       /\ (pc = "line" /\ ~EventStream(variant) /\ Sentinel(Head(lines)))
              => /\ unmarshals' = unmarshals + 1
                 /\ failedAt' # 0
                 /\ result' = result
                 /\ (variant \in Scanners) => (pc' = "done" /\ finalErr' = "decode")
      ]_vars

C19_Witness ==
    /\ variant = "openaiScanner"
    /\ streamType = "Chat"
    /\ wire = << <<"data:", "SP", "{", "c", "a", "c", "b", "F", "}">>,
                 <<"data:", "SP", "{", "c", "b", "S", "}">> >>
    /\ pc = "done"
    /\ finalErr = "nil"
    /\ result = CreateAssistantMessage(<<"a", "b">>)

C14_SendSurfacesStreamFailure ==
    (send.pc = "returned" /\ pc = "done" /\ finalErr # "nil")
        => send.err # "nil"

\* C15: when a read of the body fails with an error other than end-of-stream the
\* call returns a non-nil error and no finished message.
C15_ReadFailureIsReturned ==
    (Returned /\ rerr = "ERR")
        => /\ finalErr # "nil"
           /\ result = ZeroMessage

\* C20: with terminal output on, the spinner is started before the request is
\* issued, cancel() has been called before HandleStreamResponse is entered (so
\* before its first read), and while the operation runs cancel() is not called
\* before the response headers are in.
C20_SpinnerAroundRequest ==
    send.output
        => /\ send.requested => spinner # "none"
           /\ (pc # "notcalled" \/ nreads > 0) => send.cancelled
           /\ (send.cancelled /\ send.pc \notin {"returned", "panicked"}) => send.received

C20_Witness ==
    /\ send.output
    /\ send.pc = "stream"
    /\ send.requested
    /\ send.cancelled
    /\ nreads = 1
    /\ spinner = "exited"

\* C22: a chat send operation that does not end in a finished Message leaves the
\* conversation as it was (empty here); one that does adds the request message and
\* the finished assistant message, nothing else.
C22_HistoryOnlyOnSuccess ==
    (send.pc = "returned" /\ send.op = "Chat")
        => IF send.err = "nil" /\ send.result.role = "assistant"
           THEN send.conversation = <<UserMessage, send.result>>
           ELSE send.conversation = <<>>

\* C29: when a send operation that started the spinner has returned, the
\* spinner's cancellation has been signalled.
C29_SpinnerCancelledOnReturn ==
    (send.pc \in {"returned", "panicked"} /\ spinner # "none") => send.cancelled

\* once cancellation is signalled the spinner goroutine finishes at most the loop
\* iteration it is in and then exits
SpinnerStopsAfterCancel ==
    [][(send.cancelled /\ spinner' # spinner)
        => \/ spinner = "print" /\ spinner' = "check"
           \/ spinner = "check" /\ spinner' = "exited"]_vars

\* a line of the event-stream dialect that is a JSON object without choices
NoChoices(l) ==
    ~Blank(l) /\ ~Sentinel(l) /\ EventFrame(l).ok /\ Len(EventFrame(l).Choices) = 0

\* C28: in the event-stream dialect the step that handles a JSON object whose
\* choices list is empty or absent ends the call with an error and the zero
\* Message, without calling the callback and without a crash.
C28_EmptyChoicesFails ==
    [][(pc = "line" /\ EventStream(variant) /\ NoChoices(Head(lines)))
        => /\ pc' = "done"
           /\ finalErr' # "nil"
           /\ result' = ZeroMessage
           /\ delivered' = delivered]_vars

----------------------------------------------------------------------------
\* bufio.Scanner carries a partial line over to the next read: the scanner loops
\* give the same outcome whatever the split.
ScannerChunkInvariance ==
    (/\ variant \in Scanners
     /\ phase = 2
     /\ status = StatusOK
     /\ pc = "done"
     /\ first.rerr # "ERR"
     /\ rerr # "ERR")
        => /\ delivered = first.delivered
           /\ result = first.result
           /\ finalErr = first.finalErr

----------------------------------------------------------------------------
\* claims about the conversation

\* a call of PrepareConversation has just returned
Prepared == ret.op = "PrepareConversation"

\* system role followed by the whole history
Full == <<companion.SystemRole>> \o companion.Conversation

\* C27: the list PrepareConversation returns begins with the system-role message,
\* for every history length and every MaxMessages >= 1, truncated or not.
C27_BeginsWithSystemRole ==
    (Prepared /\ companion.Config.MaxMessages >= 1)
        => (ret.value # <<>> /\ ret.value[1] = companion.SystemRole)

C24_GetSystemRoleReturnsLastSet ==
    ret.op = "GetSystemRole" => ret.value.content = lastSet

Passes(msg, includeStrategy) ==
    /\ includeStrategy = "assistant" => msg.role = "assistant"
    /\ includeStrategy = "user" => msg.role = "user"

\* the positions of the messages that pass the filter
Passing(messages, includeStrategy) ==
    {i \in 1..Len(messages) : Passes(messages[i], includeStrategy)}

Min(a, b) == IF a < b THEN a ELSE b

\* C30: PrepareArray returns a subsequence of messages in their order, made of the
\* messages that pass the filter of the strategy, of length min(k, maxMessages),
\* consisting of the most recent of them, and leaves the input as it was.
C30_PrepareArrayMostRecentFiltered ==
    ret.op = "PrepareArray"
        => LET passing == Passing(ret.messages, ret.includeStrategy)
               n == Len(ret.value)
           IN  /\ n = Min(Cardinality(passing), ret.maxMessages)
               /\ \E f \in [1..n -> 1..Len(ret.messages)] :
                    /\ \A i, j \in 1..n : i < j => f[i] < f[j]
                    /\ \A i \in 1..n : f[i] \in passing /\ ret.value[i] = ret.messages[f[i]]
                    /\ \A p \in passing : \A i \in 1..n : p > f[i] => \E j \in 1..n : f[j] = p
               /\ companion.Conversation = ret.messages

C30_Witness ==
    /\ ret.op = "PrepareArray"
    /\ ret.includeStrategy = "assistant"
    /\ Len(ret.messages) = 3
    /\ ret.maxMessages = 1
    /\ Cardinality(Passing(ret.messages, "assistant")) = 2
    /\ ret.value = <<ret.messages[3]>>

----------------------------------------------------------------------------
\* claims about the sidekick

\* C26: for every image of positive width and height and every maxSize > 0, the
\* width and the height computed by CalculateNewDimensions are at most maxSize,
\* whatever the aspect ratio, for sources larger and smaller than maxSize.
C26_DimensionsWithinMaxSize ==
    ret.op = "CalculateNewDimensions"
        => (ret.newWidth <= ret.maxSize /\ ret.newHeight <= ret.maxSize)

C26_Witness ==
    /\ ret.op = "CalculateNewDimensions"
    /\ ret.width > ret.maxSize
    /\ ret.width > ret.height
    /\ ret.newWidth = ret.maxSize
    /\ ret.newHeight < ret.maxSize
    /\ ret.newHeight > 0

----------------------------------------------------------------------------
\* claims about concurrent calls

\* the call r, running with the other, got the response it got on its own: the same
\* status, and the same end of the body
SameResponse(r) == r.alone.set /\ r.status = r.alone.status /\ r.rerr = r.alone.rerr

====
